---- MODULE Spec2Model ----
(***************************************************************************)
(* Model of the Link header codec of src/lib.rs: LinkItem / Link parsing    *)
(* (FromStr), formatting (Display) and the headers::Header adapter          *)
(* (decode / encode).                                                       *)
(*                                                                         *)
(* A string is a sequence of one-character strings, so that splitting,      *)
(* trimming and prefix/suffix stripping are computed character by           *)
(* character as the standard library does.  A HashMap<String, String> is a  *)
(* function from a finite set of names to values; its iteration order is    *)
(* unspecified, so formatting takes the order as an input.                  *)
(***************************************************************************)
EXTENDS Naturals, Sequences, FiniteSets

VARIABLES
    pc,        \* position of the driver: which operation was applied last
    text,      \* the &str handed to from_str
    item,      \* result of LinkItem::from_str(text)
    items,     \* LinkItems collected so far by a caller building a Link
    link,      \* Result<Link, InvalidLink> (from_str) or the constructed Link
    out,       \* the text produced by Display for link
    link2,     \* result of Link::from_str(out)
    values,    \* the raw header values behind the iterator given to decode
    consumed,  \* how many values decode pulled from the iterator
    decoded,   \* Result<Link, headers::Error> of decode
    encoded,   \* the collection encode extends
    panicked   \* encode reached the panic of unwrap()

vars == <<pc, text, item, items, link, out, link2, values, consumed, decoded,
          encoded, panicked>>

(***************************************************************************)
(* Bounds of the model.                                                     *)
(***************************************************************************)
MaxTok == 4
MaxItems == 2
MaxPairs == 2
MaxValues == 2

(***************************************************************************)
(* Characters.                                                              *)
(***************************************************************************)
\* line feed: whitespace, and a control character
LF == "\n"
\* a byte above 0x7F (obs-text): legal in a HeaderValue, not visible ASCII
OBS == "0x80"

\* char::is_whitespace for the characters of the model (str::trim)
WhiteSpace == {" ", LF}

\* char::is_ascii_alphanumeric for the characters of the model
Alnum == {"a", "b"}

\* visible ASCII (32..=126): what HeaderValue::to_str requires of every byte
VisibleAscii == {"<", ">", ";", ",", "=", " ", "a", "b"}

\* bytes a HeaderValue may hold: no control character (obs-text is allowed)
ValueBytes == VisibleAscii \cup {OBS}

\* characters http::Uri accepts inside a URI reference: unreserved characters
\* and sub-delimiters, but neither whitespace nor angle brackets
UriChars == {"a", "b", "=", ",", ";"}

(***************************************************************************)
(* Result / Option values.                                                  *)
(***************************************************************************)
InvalidLink == [ok |-> FALSE]
Ok(v) == [ok |-> TRUE, val |-> v]
None == [some |-> FALSE]
Some(v) == [some |-> TRUE, val |-> v]

(***************************************************************************)
(* str primitives of the standard library used by the code.                 *)
(***************************************************************************)
\* position of the first occurrence of c in s, 0 when there is none
Find(s, c) ==
    IF \E i \in 1..Len(s) : s[i] = c
    THEN CHOOSE i \in 1..Len(s) : s[i] = c /\ \A j \in 1..(i - 1) : s[j] # c
    ELSE 0

\* str::split_once
SplitOnce(s, c) ==
    LET i == Find(s, c)
    IN  IF i = 0 THEN None
        ELSE Some(<<SubSeq(s, 1, i - 1), SubSeq(s, i + 1, Len(s))>>)

\* str::split(c), collected: always at least one piece
RECURSIVE Split(_, _)
Split(s, c) ==
    LET p == SplitOnce(s, c)
    IN  IF ~p.some THEN <<s>> ELSE <<p.val[1]>> \o Split(p.val[2], c)

RECURSIVE TrimStart(_)
TrimStart(s) ==
    IF s # <<>> /\ Head(s) \in WhiteSpace THEN TrimStart(Tail(s)) ELSE s

RECURSIVE TrimEnd(_)
TrimEnd(s) ==
    IF s # <<>> /\ s[Len(s)] \in WhiteSpace
    THEN TrimEnd(SubSeq(s, 1, Len(s) - 1)) ELSE s

\* str::trim
Trim(s) == TrimEnd(TrimStart(s))

\* str::strip_prefix
StripPrefix(s, c) ==
    IF s # <<>> /\ Head(s) = c THEN Some(Tail(s)) ELSE None

\* str::strip_suffix
StripSuffix(s, c) ==
    IF s # <<>> /\ s[Len(s)] = c THEN Some(SubSeq(s, 1, Len(s) - 1)) ELSE None

(***************************************************************************)
(* http::Uri, an external type: parse fails on the empty string and on any  *)
(* character a URI reference cannot hold; Display renders the reference.    *)
(***************************************************************************)
UriParse(s) ==
    IF s = <<>> \/ \E i \in 1..Len(s) : s[i] \notin UriChars
    THEN InvalidLink
    ELSE Ok([ref |-> s])

UriFmt(u) == u.ref

(***************************************************************************)
(* HashMap<String, String>.                                                 *)
(***************************************************************************)
EmptyMap == [n \in {} |-> <<>>]

\* faulty variant: an existing key keeps its value (entry().or_insert)
MapInsert_KeepFirst(m, k, v) ==
    [n \in DOMAIN m \cup {k} |-> IF n \in DOMAIN m THEN m[n] ELSE v]

\* HashMap::insert: overwrites the value of an existing key
MapInsert(m, k, v) ==
    [n \in DOMAIN m \cup {k} |-> IF n = k THEN v ELSE m[n]]

\* all the orders in which a map with key set K may be iterated
RECURSIVE Orders(_)
Orders(K) ==
    IF K = {} THEN {<<>>}
    ELSE UNION {{<<k>> \o o : o \in Orders(K \ {k})} : k \in K}

(***************************************************************************)
(* LinkItem                                                                 *)
(***************************************************************************)
\* LinkItem::new
New(uri) == [uri |-> uri, params |-> EmptyMap]

\* collect() of (key, val) pairs into a HashMap: later pairs overwrite
RECURSIVE CollectPairs(_, _)
CollectPairs(pairs, m) ==
    IF pairs = <<>> THEN m
    ELSE CollectPairs(Tail(pairs), MapInsert(m, Head(pairs)[1], Head(pairs)[2]))

\* LinkItem::with_param
WithParam(uri, pairs) == [uri |-> uri, params |-> CollectPairs(pairs, EmptyMap)]

\* LinkItem::uri
UriOf(it) == it.uri

\* LinkItem::param
Param(it, name) ==
    IF name \in DOMAIN it.params THEN Some(it.params[name]) ELSE None

\* faulty variant: the head is trimmed before the bracket check
ItemHead_Trimmed(s) ==
    LET p == SplitOnce(s, ";") IN Trim(IF p.some THEN p.val[1] ELSE s)

\* from_str: the text before the first ';', or the whole text
ItemHead(s) ==
    LET p == SplitOnce(s, ";") IN IF p.some THEN p.val[1] ELSE s

\* from_str: the text after the first ';', if there is one
ItemTail(s) ==
    LET p == SplitOnce(s, ";") IN IF p.some THEN Some(p.val[2]) ELSE None

\* faulty variant: a fragment without '=' is taken as a name with no value
ParseParam_NameOnly(param) ==
    LET p == SplitOnce(Trim(param), "=")
    IN  IF p.some THEN p ELSE Some(<<Trim(param), <<>>>>)

\* from_str: one fragment, trimmed and split on its first '='
ParseParam(param) == SplitOnce(Trim(param), "=")

\* from_str: the loop over the fragments, stopping at the first failure
RECURSIVE CollectParams(_, _)
CollectParams(frags, params) ==
    IF frags = <<>> THEN Ok(params)
    ELSE LET p == ParseParam(Head(frags))
         IN  IF ~p.some THEN InvalidLink
             ELSE CollectParams(Tail(frags),
                                MapInsert(params, p.val[1], p.val[2]))

\* <LinkItem as FromStr>::from_str
ItemFromStr(s) ==
    LET l0 == StripPrefix(ItemHead(s), "<")
    IN  IF ~l0.some THEN InvalidLink
        ELSE
        LET l1 == StripSuffix(l0.val, ">")
        IN  IF ~l1.some THEN InvalidLink
            ELSE
            LET u == UriParse(l1.val)
                t == ItemTail(s)
            IN  IF ~u.ok THEN InvalidLink
                ELSE IF ~t.some THEN Ok([uri |-> u.val, params |-> EmptyMap])
                ELSE LET ps == CollectParams(Split(t.val, ";"), EmptyMap)
                     IN  IF ~ps.ok THEN InvalidLink
                         ELSE Ok([uri |-> u.val, params |-> ps.val])

\* one parameter as Display writes it
WriteParam(name, data) == <<";", " ">> \o name \o <<"=">> \o data

RECURSIVE WriteParams(_, _)
WriteParams(params, ord) ==
    IF ord = <<>> THEN <<>>
    ELSE WriteParam(Head(ord), params[Head(ord)]) \o WriteParams(params, Tail(ord))

\* faulty variant: the first parameter is introduced by ", " instead of "; "
ItemFmt_CommaParams(it, ord) ==
    <<"<">> \o UriFmt(it.uri) \o <<">">>
    \o (IF ord = <<>> THEN <<>>
        ELSE <<",", " ">> \o SubSeq(WriteParams(it.params, ord), 3,
                                    Len(WriteParams(it.params, ord))))

\* faulty variant: a ';' is written after the last parameter
ItemFmt_TrailingSep(it, ord) ==
    <<"<">> \o UriFmt(it.uri) \o <<">">> \o WriteParams(it.params, ord)
    \o (IF ord = <<>> THEN <<>> ELSE <<";">>)

\* <LinkItem as Display>::fmt, the map iterated in the order ord
ItemFmt(it, ord) ==
    <<"<">> \o UriFmt(it.uri) \o <<">">> \o WriteParams(it.params, ord)

(***************************************************************************)
(* Link                                                                     *)
(***************************************************************************)
\* faulty variant: empty segments are dropped
LinkSegments_SkipEmpty(s) ==
    LET all == Split(s, ",")
        keep == {i \in 1..Len(all) : all[i] # <<>>}
    IN  IF keep = {} THEN <<<<>>>>
        ELSE [j \in 1..Cardinality(keep) |->
                all[CHOOSE i \in keep :
                      Cardinality({k \in keep : k <= i}) = j]]

\* from_str: s.split(',')
LinkSegments(s) == Split(s, ",")

\* collect::<Result<Box<[LinkItem]>, _>>(): the first Err ends the collection
RECURSIVE CollectItems(_, _)
CollectItems(segs, acc) ==
    IF segs = <<>> THEN Ok(acc)
    ELSE LET r == ItemFromStr(Head(segs))
         IN  IF ~r.ok THEN InvalidLink
             ELSE CollectItems(Tail(segs), Append(acc, r.val))

\* <Link as FromStr>::from_str
LinkFromStr(s) == CollectItems(LinkSegments(s), <<>>)

RECURSIVE FmtRest(_, _)
FmtRest(its, ords) ==
    IF its = <<>> THEN <<>>
    ELSE <<",">> \o ItemFmt(Head(its), Head(ords)) \o FmtRest(Tail(its), Tail(ords))

\* faulty variant: the first two items are joined by ", "
LinkFmt_CommaSpace(its, ords) ==
    IF its = <<>> THEN <<>>
    ELSE ItemFmt(Head(its), Head(ords))
         \o (IF Tail(its) = <<>> THEN <<>>
             ELSE <<",", " ">>
                  \o SubSeq(FmtRest(Tail(its), Tail(ords)), 2,
                            Len(FmtRest(Tail(its), Tail(ords)))))

\* <Link as Display>::fmt, item i iterating its map in the order ords[i]
LinkFmt(its, ords) ==
    IF its = <<>> THEN <<>>
    ELSE ItemFmt(Head(its), Head(ords)) \o FmtRest(Tail(its), Tail(ords))

\* the iteration orders the maps of its may take, one per item
RECURSIVE OrdersFor(_)
OrdersFor(its) ==
    IF its = <<>> THEN {<<>>}
    ELSE {<<o>> \o r : o \in Orders(DOMAIN Head(its).params),
                       r \in OrdersFor(Tail(its))}

\* ToString::to_string: every text Display may produce for the Link
ToStrings(its) == {LinkFmt(its, ords) : ords \in OrdersFor(its)}

(***************************************************************************)
(* impl Header for Link                                                     *)
(***************************************************************************)
\* headers::Error::invalid()
HeaderInvalid == [ok |-> FALSE, err |-> "invalid"]

\* From<InvalidLink> for headers::Error
IntoHeaderError(e) == HeaderInvalid

\* HeaderValue::to_str: fails unless every byte is visible ASCII
ToStr(v) ==
    IF \A i \in 1..Len(v) : v[i] \in VisibleAscii THEN Ok(v) ELSE InvalidLink

\* HeaderValue::from_str: fails on any byte a HeaderValue may not hold
HeaderValueFromStr(s) ==
    IF \A i \in 1..Len(s) : s[i] \in ValueBytes THEN Ok(s) ELSE [ok |-> FALSE]

\* faulty variant: every value of the iterator is read and merged
RECURSIVE JoinValues(_)
JoinValues(vals) ==
    IF Len(vals) = 1 THEN Head(vals)
    ELSE Head(vals) \o <<",">> \o JoinValues(Tail(vals))

Decode_MergeAll(vals) ==
    IF vals = <<>> THEN [res |-> HeaderInvalid, taken |-> 0]
    ELSE LET t == ToStr(JoinValues(vals))
             r == IF t.ok THEN LinkFromStr(t.val) ELSE InvalidLink
         IN  [res |-> IF r.ok THEN r ELSE IntoHeaderError(r),
              taken |-> Len(vals)]

\* Link::decode: the result, and how many values were pulled from the iterator
Decode(vals) ==
    IF vals = <<>> THEN [res |-> HeaderInvalid, taken |-> 0]
    ELSE LET t == ToStr(Head(vals))
             r == IF t.ok THEN LinkFromStr(t.val) ELSE InvalidLink
         IN  [res |-> IF r.ok THEN r ELSE IntoHeaderError(r), taken |-> 1]

(***************************************************************************)
(* Inputs.                                                                  *)
(***************************************************************************)
\* pieces the input texts are assembled from
Tokens ==
    { <<"<", "a", ">">>, <<"<", "b", ">">>, <<";", "a", "=">>,
      <<";">>, <<",">>, <<"=">>, <<" ">>, <<"a">>, <<"b">>, <<"<">>, <<">">> }

\* the texts made of at most n tokens
RECURSIVE Texts(_)
Texts(n) ==
    IF n = 0 THEN {<<>>}
    ELSE LET P == Texts(n - 1) IN P \cup {t \o k : t \in P, k \in Tokens}

\* valid URIs handed to the constructors
UriSet ==
    {UriParse(<<"a">>).val, UriParse(<<"b">>).val, UriParse(<<"a", ",", "b">>).val}

\* parameter names and values handed to with_param
ParamNames == {<<"a">>, <<"b">>}
ParamVals == {<<"a">>, <<LF>>}

RECURSIVE PairSeqs(_)
PairSeqs(n) ==
    IF n = 0 THEN {<<>>}
    ELSE LET P == PairSeqs(n - 1)
         IN  P \cup {Append(p, <<k, v>>) : p \in P, k \in ParamNames, v \in ParamVals}

\* raw header values behind the iterator given to decode
RawValues ==
    Texts(1) \cup { <<OBS>>, <<"<", "a", ">", ",", "<", "b", ">">>,
                    <<"<", "a", ">", ";", "a", "=", "b">> }

RECURSIVE ValueSeqs(_)
ValueSeqs(n) ==
    IF n = 0 THEN {<<>>}
    ELSE LET P == ValueSeqs(n - 1) IN P \cup {Append(p, v) : p \in P, v \in RawValues}

(***************************************************************************)
(* State machine.                                                           *)
(***************************************************************************)
Idle ==
    /\ item = InvalidLink /\ items = <<>> /\ link = InvalidLink
    /\ out = <<>> /\ link2 = InvalidLink
    /\ consumed = 0 /\ decoded = HeaderInvalid
    /\ encoded = <<>> /\ panicked = FALSE

\* a caller about to parse a text
InitParse ==
    /\ pc = "ready" /\ text \in Texts(MaxTok) /\ values = <<>> /\ Idle

\* a caller about to build a Link from LinkItems
InitBuild ==
    /\ pc = "build" /\ text = <<>> /\ values = <<>> /\ Idle

\* a caller about to decode the header values of a message
InitHeader ==
    /\ pc = "header" /\ text = <<>> /\ values \in ValueSeqs(MaxValues) /\ Idle

\* LinkItem::from_str(text)
ParseItem ==
    /\ pc = "ready"
    /\ item' = ItemFromStr(text)
    /\ pc' = "item"
    /\ UNCHANGED <<text, items, link, out, link2, values, consumed, decoded,
                   encoded, panicked>>

\* Link::from_str(text)
ParseLink ==
    /\ pc = "ready"
    /\ link' = LinkFromStr(text)
    /\ pc' = "parsed"
    /\ UNCHANGED <<text, item, items, out, link2, values, consumed, decoded,
                   encoded, panicked>>

\* LinkItem::new(uri), handed to the Link under construction
PushNew ==
    /\ pc = "build" /\ Len(items) < MaxItems
    /\ \E u \in UriSet : items' = Append(items, New(u))
    /\ UNCHANGED <<pc, text, item, link, out, link2, values, consumed, decoded,
                   encoded, panicked>>

\* LinkItem::with_param(uri, pairs), handed to the Link under construction
PushWithParam ==
    /\ pc = "build" /\ Len(items) < MaxItems
    /\ \E u \in UriSet, ps \in PairSeqs(MaxPairs) :
          items' = Append(items, WithParam(u, ps))
    /\ UNCHANGED <<pc, text, item, link, out, link2, values, consumed, decoded,
                   encoded, panicked>>

\* Link::from([LinkItem; N]) / Link::from_iter
FromItems ==
    /\ pc = "build"
    /\ link' = Ok(items)
    /\ pc' = "parsed"
    /\ UNCHANGED <<text, item, items, out, link2, values, consumed, decoded,
                   encoded, panicked>>

\* Display for the Link at hand
Fmt ==
    /\ pc = "parsed" /\ link.ok
    /\ \E ords \in OrdersFor(link.val) : out' = LinkFmt(link.val, ords)
    /\ pc' = "formatted"
    /\ UNCHANGED <<text, item, items, link, link2, values, consumed, decoded,
                   encoded, panicked>>

\* Link::from_str on the text Display produced
Reparse ==
    /\ pc = "formatted"
    /\ link2' = LinkFromStr(out)
    /\ pc' = "reparsed"
    /\ UNCHANGED <<text, item, items, link, out, values, consumed, decoded,
                   encoded, panicked>>

\* Link::encode for the Link at hand
Encode ==
    /\ pc = "parsed" /\ link.ok
    /\ \E s \in ToStrings(link.val) :
          LET value == HeaderValueFromStr(s)
          IN  IF value.ok
              THEN encoded' = Append(encoded, value.val) /\ panicked' = FALSE
              ELSE encoded' = encoded /\ panicked' = TRUE
    /\ pc' = "encoded"
    /\ UNCHANGED <<text, item, items, link, out, link2, values, consumed, decoded>>

\* Link::decode(values)
DecodeHeader ==
    /\ pc = "header"
    /\ decoded' = Decode(values).res
    /\ consumed' = Decode(values).taken
    /\ pc' = "decoded"
    /\ UNCHANGED <<text, item, items, link, out, link2, values, encoded, panicked>>

NextParse == ParseItem \/ ParseLink \/ Fmt \/ Reparse \/ Encode
NextBuild == PushNew \/ PushWithParam \/ FromItems \/ Fmt \/ Reparse \/ Encode
NextHeader == DecodeHeader

SpecParse == InitParse /\ [][NextParse]_vars
SpecBuild == InitBuild /\ [][NextBuild]_vars
SpecHeader == InitHeader /\ [][NextHeader]_vars

Init == InitParse \/ InitBuild \/ InitHeader
Next == NextParse \/ NextBuild \/ NextHeader
Spec == Init /\ [][Next]_vars

(***************************************************************************)
(* Vocabulary of the properties: the grammar of the header text, stated by  *)
(* positions in the text rather than by the parser's steps.                 *)
(***************************************************************************)
Max(S) == CHOOSE x \in S : \A y \in S : y <= x
Min(S) == CHOOSE x \in S : \A y \in S : x <= y

\* the places where s is cut at c, with both ends of s
Cuts(s, c) == {0} \cup {i \in 1..Len(s) : s[i] = c} \cup {Len(s) + 1}

\* the k-th cut of s, counting from 0
NthCut(s, c, k) ==
    CHOOSE p \in Cuts(s, c) : Cardinality({q \in Cuts(s, c) : q < p}) = k

\* the number of pieces of s delimited by c, and the k-th of them
NumPieces(s, c) == Cardinality(Cuts(s, c)) - 1
Piece(s, c, k) == SubSeq(s, NthCut(s, c, k - 1) + 1, NthCut(s, c, k) - 1)

\* the longest prefix of s that holds no c, and what follows that c
BeforeFirst(s, c) ==
    SubSeq(s, 1, Cardinality({i \in 1..Len(s) : \A j \in 1..i : s[j] # c}))
AfterFirst(s, c) == SubSeq(s, Len(BeforeFirst(s, c)) + 2, Len(s))
Contains(s, c) == \E i \in 1..Len(s) : s[i] = c

\* s without its leading and trailing whitespace
Trimmed(s) ==
    LET nz == {i \in 1..Len(s) : s[i] \notin WhiteSpace}
    IN  IF nz = {} THEN <<>> ELSE SubSeq(s, Min(nz), Max(nz))

Bracketed(h) == Len(h) >= 1 /\ h[1] = "<" /\ h[Len(h)] = ">"

\* the parameter fragments of one link-item text
NumFrags(s) == IF Contains(s, ";") THEN NumPieces(AfterFirst(s, ";"), ";") ELSE 0
Frag(s, k) == Trimmed(Piece(AfterFirst(s, ";"), ";", k))
FragName(s, k) == BeforeFirst(Frag(s, k), "=")
FragValue(s, k) == AfterFirst(Frag(s, k), "=")

SameOption(x, y) == x.some = y.some /\ (x.some => x.val = y.val)

\* two Links hold the same items: URIs in order, and equal parameter maps
SameItems(a, b) ==
    /\ Len(a) = Len(b)
    /\ \A i \in 1..Len(a) :
          /\ UriOf(a[i]) = UriOf(b[i])
          /\ DOMAIN a[i].params = DOMAIN b[i].params
          /\ \A n \in DOMAIN a[i].params : Param(a[i], n).val = Param(b[i], n).val

(***************************************************************************)
(* C2: Link::from_str cuts the text at every ',' without trimming; it       *)
(* succeeds exactly when every piece parses as a LinkItem, then holds one   *)
(* item per piece (commas + 1) in text order; otherwise the result is       *)
(* InvalidLink and nothing else.                                            *)
(***************************************************************************)
C2_AllSegmentsOrNothing ==
    pc = "parsed" =>
        LET n == NumPieces(text, ",")
        IN  /\ link.ok <=> \A k \in 1..n : ItemFromStr(Piece(text, ",", k)).ok
            /\ link.ok =>
                  /\ Len(link.val) = n
                  /\ \A k \in 1..n :
                        link.val[k] = ItemFromStr(Piece(text, ",", k)).val
            /\ ~link.ok => DOMAIN link = {"ok"}

C2_Witness ==
    /\ pc = "parsed" /\ link.ok /\ Len(link.val) >= 2
    /\ UriOf(link.val[1]) # UriOf(link.val[2])

(***************************************************************************)
(* C3: LinkItem::from_str fails whenever the head (the text before the      *)
(* first ';') does not begin with '<' and end with '>'; nothing is trimmed  *)
(* around the brackets, so Link::from_str fails on any such segment and on  *)
(* the empty text.                                                          *)
(***************************************************************************)
C3_BracketsRequired ==
    /\ pc = "item" =>
          (~Bracketed(BeforeFirst(text, ";")) => ~item.ok)
    /\ pc = "parsed" =>
          ((\E k \in 1..NumPieces(text, ",") :
                ~Bracketed(BeforeFirst(Piece(text, ",", k), ";"))) => ~link.ok)
    /\ (pc = "parsed" /\ text = <<>>) => ~link.ok

C3_Witness ==
    /\ pc = "parsed" /\ ~link.ok /\ NumPieces(text, ",") = 2
    /\ ItemFromStr(Piece(text, ",", 1)).ok
    /\ Piece(text, ",", 2) # <<>> /\ Piece(text, ",", 2)[1] = " "
    /\ ItemFromStr(Trimmed(Piece(text, ",", 2))).ok

(***************************************************************************)
(* C4: when the text has a ';', every fragment of the tail must hold an     *)
(* '=': a fragment without one, such as the empty fragment after a          *)
(* trailing ';' or a bare name, fails LinkItem::from_str.                   *)
(***************************************************************************)
C4_FragmentNeedsEquals ==
    pc = "item" =>
        /\ (\E k \in 1..NumFrags(text) : ~Contains(Frag(text, k), "=")) => ~item.ok
        /\ (text # <<>> /\ text[Len(text)] = ";") => ~item.ok

C4_Witness ==
    /\ pc = "item" /\ ~item.ok
    /\ ItemFromStr(BeforeFirst(text, ";")).ok
    /\ text[Len(text)] = ";"

(***************************************************************************)
(* C5: after a successful LinkItem::from_str, param(name) is the value of   *)
(* the last fragment named name, the value being all that follows the       *)
(* first '=' of the trimmed fragment; it is None when no fragment has that  *)
(* name.                                                                    *)
(***************************************************************************)
ProbeNames ==
    {FragName(text, k) : k \in 1..NumFrags(text)}
        \cup {<<>>, <<"a">>, <<"b">>, <<"a", " ">>}

C5_LastFragmentWins ==
    (pc = "item" /\ item.ok) =>
        \A name \in ProbeNames :
            LET hits == {k \in 1..NumFrags(text) : FragName(text, k) = name}
            IN  SameOption(Param(item.val, name),
                           IF hits = {} THEN None
                           ELSE Some(FragValue(text, Max(hits))))

C5_Witness ==
    /\ pc = "item" /\ item.ok
    /\ \E j, k \in 1..NumFrags(text) :
          /\ j < k
          /\ FragName(text, j) = FragName(text, k)
          /\ FragValue(text, j) # FragValue(text, k)

(***************************************************************************)
(* C9: no successful LinkItem::from_str stores a parameter under the empty  *)
(* name.                                                                    *)
(***************************************************************************)
C9_NoEmptyName ==
    (pc = "item" /\ item.ok) => \A n \in DOMAIN item.val.params : n # <<>>

(***************************************************************************)
(* C10: the text Display produces for a Link that from_str returned is      *)
(* accepted by from_str again and yields the same items, whatever order     *)
(* the parameters were written in.                                          *)
(***************************************************************************)
C10_ReparseStable ==
    pc = "reparsed" => link2.ok /\ SameItems(link.val, link2.val)

C10_Witness ==
    /\ pc = "reparsed" /\ out # text /\ link2.ok
    /\ \E i \in 1..Len(link.val) : Cardinality(DOMAIN link.val[i].params) >= 2

(***************************************************************************)
(* The header text of a Link, stated piece by piece.                        *)
(***************************************************************************)
Perms(K) ==
    {f \in [1..Cardinality(K) -> K] : \A k \in K : \E i \in DOMAIN f : f[i] = k}

RECURSIVE Flatten(_)
Flatten(ps) == IF ps = <<>> THEN <<>> ELSE Head(ps) \o Flatten(Tail(ps))

\* '<' URI '>' and then, per parameter, "; " name '=' value
ItemPieces(it, o) ==
    << <<"<">>, UriFmt(it.uri), <<">">> >>
    \o [k \in 1..(4 * Len(o)) |->
          LET n == o[(k + 3) \div 4]
          IN  CASE k % 4 = 1 -> <<";", " ">>
                [] k % 4 = 2 -> n
                [] k % 4 = 3 -> <<"=">>
                [] OTHER -> it.params[n]]

ItemTexts(it) == {Flatten(ItemPieces(it, o)) : o \in Perms(DOMAIN it.params)}

\* the items' texts joined by single commas
RECURSIVE Joined(_)
Joined(its) ==
    IF its = <<>> THEN {<<>>}
    ELSE IF Len(its) = 1 THEN ItemTexts(its[1])
    ELSE {h \o <<",">> \o r : h \in ItemTexts(Head(its)), r \in Joined(Tail(its))}

\* no field of the Link holds a delimiter, whitespace or a non-alphanumeric
\* parameter character
Reserved == {";", ",", "<", ">", "="} \cup WhiteSpace
AlnumStr(s) == \A i \in 1..Len(s) : s[i] \in Alnum
Clean(its) ==
    \A i \in 1..Len(its) :
        /\ \A j \in 1..Len(UriFmt(its[i].uri)) : UriFmt(its[i].uri)[j] \notin Reserved
        /\ \A n \in DOMAIN its[i].params : AlnumStr(n) /\ AlnumStr(its[i].params[n])

(***************************************************************************)
(* C1 (as claimed): for every Link built by the constructors from valid     *)
(* URIs and alphanumeric parameter names and values, formatting and then    *)
(* parsing succeeds and yields the same items.                              *)
(***************************************************************************)
C1_RoundTripAnyLink ==
    (pc = "reparsed" /\ Clean(link.val)) =>
        link2.ok /\ SameItems(link.val, link2.val)

(***************************************************************************)
(* C1 (amended): the round trip holds for every such Link that has at       *)
(* least one item.                                                          *)
(***************************************************************************)
C1_RoundTripNonEmpty ==
    (pc = "reparsed" /\ Clean(link.val) /\ link.val # <<>>) =>
        (link2.ok /\ SameItems(link.val, link2.val))

C1_Witness ==
    /\ pc = "reparsed" /\ Clean(link.val) /\ Len(link.val) >= 2
    /\ UriOf(link.val[1]) # UriOf(link.val[2])
    /\ \E i \in 1..Len(link.val) : Cardinality(DOMAIN link.val[i].params) >= 2
    /\ link2.ok

(***************************************************************************)
(* C6: Display always produces a text for a Link, and writes exactly        *)
(* '<' URI '>' and "; " name '=' value per parameter for each item, the     *)
(* items joined by single commas in item order; a Link without items        *)
(* formats as the empty text.                                               *)
(***************************************************************************)
C6_ExactFormat ==
    /\ (pc = "parsed" /\ link.ok) => ENABLED Fmt
    /\ pc = "formatted" =>
          /\ out \in Joined(link.val)
          /\ link.val = <<>> => out = <<>>

C6_Witness ==
    /\ pc = "formatted" /\ Len(link.val) >= 2
    /\ \E i \in 1..Len(link.val) : Cardinality(DOMAIN link.val[i].params) >= 2
    /\ NumPieces(out, ",") = Len(link.val)

(***************************************************************************)
(* C8: encode never panics for a Link built by the constructors, and        *)
(* appends exactly one value, the Link's Display text.                      *)
(***************************************************************************)
C8_EncodeNeverPanics ==
    pc = "encoded" =>
        /\ ~panicked
        /\ Len(encoded) = 1
        /\ encoded[1] \in Joined(link.val)

(***************************************************************************)
(* C7: decode fails on an iterator without values; otherwise it pulls       *)
(* exactly the first value and its result is decided by that value alone:   *)
(* the parsed Link when the value is text that Link::from_str accepts, the  *)
(* invalid-header error otherwise.                                          *)
(***************************************************************************)
C7_FirstValueOnly ==
    pc = "decoded" =>
        /\ values = <<>> => (~decoded.ok /\ decoded = HeaderInvalid /\ consumed = 0)
        /\ values # <<>> =>
              LET first == values[1]
                  isText == \A i \in 1..Len(first) : first[i] \in VisibleAscii
                  alone == Decode(<<first>>).res
              IN  /\ consumed = 1
                  /\ decoded.ok <=> (isText /\ LinkFromStr(first).ok)
                  /\ decoded.ok => decoded.val = LinkFromStr(first).val
                  /\ ~decoded.ok => decoded = HeaderInvalid
                  /\ decoded.ok = alone.ok
                  /\ decoded.ok => decoded.val = alone.val

C7_Witness ==
    /\ pc = "decoded" /\ decoded.ok /\ consumed = 1 /\ Len(values) >= 2
    /\ ~ToStr(values[2]).ok

====
